---- MODULE Spec2Model ----
(***************************************************************************)
(* Model of PhishGuard's SafeChecker (app/service/checker.py): the two     *)
(* public operations check_phone_safety and check_url_safety, the phone    *)
(* normaliser, the URL validator / scheme resolver / short-link expander,  *)
(* the override lists and the three-node consensus.                        *)
(*                                                                         *)
(* Strings.  A phone number is a sequence of one-character strings.  A URL *)
(* is a sequence of lexical tokens (" ", "http://", "https://", a host, a  *)
(* path), which is the granularity at which str.strip, str.startswith and  *)
(* the _is_url pattern tell URLs apart.  A report is the sequence of lines *)
(* that the code joins with "\n".                                          *)
(*                                                                         *)
(* Environment.  The answer of every network probe and of every node is a  *)
(* nondeterministic choice made when the code performs the call.           *)
(***************************************************************************)
EXTENDS Naturals, Sequences, FiniteSets, TLC

VARIABLES pc, op, raw, subject, probes, consulted, invoked, node_ok, exc, outcome,
          driver, retry_count, is_safe, events, node_exc, reply,
          self, cur, frames

\* the locals of is_safe of the browser-driven phone nodes: the browser
\* session, the retry counter and the verdict; `events' is the history of
\* what the node did and `node_exc' the exception that left is_safe.
\* `reply' is the local of is_safe of the URL nodes: the response of the
\* provider that the node queried last.
nvars == <<driver, retry_count, is_safe, events, node_exc, reply>>

\* `self' is the SafeChecker instance: the attributes set by __init__, shared
\* by every request thread of the server.  The variables above are the
\* locals of the thread that is running, `cur'; `frames' keeps the locals of
\* the threads that are not running.
svars == <<self, cur, frames>>

vars == <<pc, op, raw, subject, probes, consulted, invoked, node_ok, exc, outcome,
          driver, retry_count, is_safe, events, node_exc, reply, self, cur, frames>>

(***************************************************************************)
(* Bounds of the model                                                     *)
(***************************************************************************)
MaxPhoneLen == 3

MaxUrlLen == 3

(***************************************************************************)
(* Characters and tokens                                                   *)
(***************************************************************************)
DecimalDigits == {"0", "1", "2", "3", "4", "5", "6", "7", "8", "9"}

\* "sup2" stands for U+00B2, a character for which str.isdigit() is True
\* although it is not a decimal digit.
IsDigit(c) == c \in DecimalDigits \cup {"sup2"}

\* characters removed by str.strip(): " " and "\t" are whitespace
IsSpace(c) == c \in {" ", "\t"}

PhoneAlphabet == {"0", "1", "-", " ", "a", "sup2"}

SchemeTokens == {"http://", "https://"}

DomainTokens == {"r3born.cc", "sds.co.kr"}

PathTokens == {"/x"}

UrlAlphabet == {" ", "http://", "https://", "r3born.cc", "sds.co.kr", "1.2.3.4", "/x"}

RECURSIVE SeqsUpTo(_, _)
SeqsUpTo(S, n) ==
    IF n = 0 THEN {<<>>}
    ELSE LET shorter == SeqsUpTo(S, n - 1)
         IN  shorter \cup {Append(s, c) : s \in {t \in shorter : Len(t) = n - 1}, c \in S}

(***************************************************************************)
(* SafeChecker.__init__ : override lists and node registries               *)
(***************************************************************************)
_phone_whitelist == {<<"0", "1", "0", "9", "2", "5", "6", "3", "6", "8", "8">>}

_phone_blacklist == {<<"0", "1", "0", "8", "2", "5", "3", "9", "4", "5", "1">>}

_url_whitelist == {<<"https://", "sds.co.kr">>}

_url_blacklist == {<<"http://", "r3born.cc">>}

_phone_safe_checker ==
    <<"OneOneFourPhoneSafeChecker", "TheCallPhoneSafeChecker", "MissedCallPhoneSafeChecker">>

_url_safe_checker ==
    <<"PhishtankURLSafeChecker", "WhoXYURLSafeChecker", "KISAURLSafeChecker">>

NodeName(i) == CASE i = 1 -> "Node_1" [] i = 2 -> "Node_2" [] OTHER -> "Node_3"

(***************************************************************************)
(* Inputs                                                                  *)
(***************************************************************************)
SamplePhones ==
    { <<"0", "1", "0", "-", "9", "2", "5", "6", "-", "3", "6", "8", "8">>,
      <<" ", "0", "1", "0", "9", "2", "5", "6", "3", "6", "8", "8", " ">>,
      <<"0", "1", "0", "9", "2", "5", "6", "3", "6", "8", "8">>,
      <<"0", "1", "0", "-", "8", "2", "5", "3", "-", "9", "4", "5", "1">>,
      <<"0", "1", "0", " ", "8", "2", "5", "3", " ", "9", "4", "5", "1", " ">>,
      <<"0", "1", "0", "8", "2", "5", "3", "9", "4", "5", "1">>,
      <<"0", "1", "0", "-", "1", "2", "3", "4", "-", "5", "6", "7", "8">> }

PhoneInputs == SeqsUpTo(PhoneAlphabet, MaxPhoneLen) \cup SamplePhones

UrlInputs == SeqsUpTo(UrlAlphabet, MaxUrlLen)

\* what requests.head does in _get_url_with_scheme: any response, a
\* requests.Timeout, another requests.RequestException, or another exception
SchemeProbeOutcomes == {"response", "timeout", "reqerr", "other"}

\* what requests.head does in _expand_short_url: a response with the status
\* code of the final hop, or one of the exceptions above
ExpandProbeOutcomes == {"200", "301", "302", "404", "timeout", "reqerr", "other"}

\* response.url of a redirecting answer
RedirectTargets == {<<"https://", "sds.co.kr">>, <<"http://", "r3born.cc">>, <<"https://", "r3born.cc", "/x">>}

\* is_safe of a node: a verdict or an exception
NodeOutcomes == {"true", "false", "raise"}

(***************************************************************************)
(* Results                                                                 *)
(***************************************************************************)
NoOutcome == [kind |-> "none", safe |-> FALSE, report |-> <<>>]

Result(ok, report) == [kind |-> "result", safe |-> ok, report |-> report]

Failure(kind) == [kind |-> kind, safe |-> FALSE, report |-> <<>>]

NoExc == [type |-> "none", stage |-> "none"]

Raised(type, stage) == [type |-> type, stage |-> stage]

(***************************************************************************)
(* String helpers: str.strip(), str.replace(c, "")                         *)
(***************************************************************************)
RECURSIVE LStrip(_)
LStrip(s) == IF s # <<>> /\ IsSpace(Head(s)) THEN LStrip(Tail(s)) ELSE s

RECURSIVE RStrip(_)
RStrip(s) ==
    IF s # <<>> /\ IsSpace(s[Len(s)]) THEN RStrip(SubSeq(s, 1, Len(s) - 1)) ELSE s

Strip(s) == RStrip(LStrip(s))

RECURSIVE Remove(_, _)
Remove(s, c) ==
    IF s = <<>> THEN <<>>
    ELSE IF Head(s) = c THEN Remove(Tail(s), c)
    ELSE <<Head(s)>> \o Remove(Tail(s), c)

\* str.replace(c, "", 1): only the first occurrence is removed
RemoveFirst(s, c) ==
    IF \E i \in 1..Len(s) : s[i] = c
    THEN LET k == CHOOSE i \in 1..Len(s) : s[i] = c /\ \A j \in 1..Len(s) : s[j] = c => i <= j
         IN  SubSeq(s, 1, k - 1) \o SubSeq(s, k + 1, Len(s))
    ELSE s

\* only the first hyphen and the first space are removed
_normalize_phone_number_FirstOnly(phone_number) ==
    LET stripped == Strip(phone_number)
    IN  IF ~(\A i \in 1..Len(stripped) :
                IsDigit(stripped[i]) \/ stripped[i] = "-" \/ stripped[i] = " ")
        THEN [raised |-> "InvalidArgumentError", value |-> <<>>]
        ELSE [raised |-> "none", value |-> RemoveFirst(RemoveFirst(stripped, "-"), " ")]

\* hyphens are kept in the normalized number
_normalize_phone_number_KeepHyphens(phone_number) ==
    LET stripped == Strip(phone_number)
    IN  IF ~(\A i \in 1..Len(stripped) :
                IsDigit(stripped[i]) \/ stripped[i] = "-" \/ stripped[i] = " ")
        THEN [raised |-> "InvalidArgumentError", value |-> <<>>]
        ELSE [raised |-> "none", value |-> Remove(stripped, " ")]

(***************************************************************************)
(* SafeChecker._normalize_phone_number                                     *)
(***************************************************************************)
_normalize_phone_number(phone_number) ==
    LET stripped == Strip(phone_number)
    IN  IF ~(\A i \in 1..Len(stripped) :
                IsDigit(stripped[i]) \/ stripped[i] = "-" \/ stripped[i] = " ")
        THEN [raised |-> "InvalidArgumentError", value |-> <<>>]
        ELSE [raised |-> "none", value |-> Remove(Remove(stripped, "-"), " ")]

(***************************************************************************)
(* Consensus and report, as written in check_phone_safety and              *)
(* check_url_safety                                                        *)
(***************************************************************************)
\* a majority vote instead of the strict AND
Consensus_Majority(v) == (v[1] /\ v[2]) \/ (v[1] /\ v[3]) \/ (v[2] /\ v[3])

\* if node_1_ok and node_2_ok and node_3_ok: ok = True  else: ok = False
Consensus(v) == v[1] /\ v[2] /\ v[3]

\* f"- Node_i(<class>): {'ok' if node_i_ok else 'suspicious'}"
NodeReport(registry, i, v) ==
    "- " \o NodeName(i) \o "(" \o registry[i] \o "): " \o (IF v THEN "ok" ELSE "suspicious")

\* the lines of Node_2 and Node_3 in the wrong order
JoinedReport_Swapped(registry, v) ==
    <<NodeReport(registry, 1, v[1]), NodeReport(registry, 3, v[3]), NodeReport(registry, 2, v[2])>>

\* the lines joined by "\n", in the order node_1_report, node_2_report, node_3_report
JoinedReport(registry, v) ==
    <<NodeReport(registry, 1, v[1]), NodeReport(registry, 2, v[2]), NodeReport(registry, 3, v[3])>>

\* a raising node counted as a suspicious verdict instead of aborting
ConsensusHandler_Suspicious(type) == Result(FALSE, <<"suspicious">>)

\* the except clause of the second try block of both operations
ConsensusHandler(type) == Failure("OperationFailed")

\* the except clause around _normalize_phone_number
NormalizeHandler(type) == Failure("InvalidArgument")

(***************************************************************************)
(* URL preprocessing: _is_url, _ensure_scheme, handlers                    *)
(***************************************************************************)
\* the pattern of _is_url on tokens: an optional http(s):// scheme, a domain
\* that is not an IP literal, an optional path, and nothing else
_is_url(url) ==
    LET rest == IF url # <<>> /\ Head(url) \in SchemeTokens THEN Tail(url) ELSE url
    IN  /\ Len(rest) \in {1, 2}
        /\ rest[1] \in DomainTokens
        /\ Len(rest) = 2 => rest[2] \in PathTokens

\* if not url.startswith(f"{scheme}://"): return f"{scheme}://{url}"
_ensure_scheme(url, scheme) ==
    IF ~(url # <<>> /\ Head(url) = scheme \o "://")
    THEN <<scheme \o "://">> \o url
    ELSE url

InaccessibleErrors == {"URLNotFoundError", "URLTimeoutError", "InvalidSchemeError"}

\* every preprocessing failure that is not an inaccessible target reported
\* as OperationFailed
PreprocessHandler_OperationFailed(type) ==
    IF type \in InaccessibleErrors
    THEN Result(TRUE, <<"URL is not accessible">>)
    ELSE Failure("OperationFailed")

\* the two except clauses around self._preprocess_url(url=url)
PreprocessHandler(type) ==
    IF type \in InaccessibleErrors
    THEN Result(TRUE, <<"URL is not accessible">>)
    ELSE Failure("InvalidArgument")

\* no fallback to http after a failed https probe
HttpsProbeFailure_NoFallback(o) ==
    IF o = "timeout" THEN "raise URLTimeoutError" ELSE "propagate"

\* the except clauses of the https attempt in _get_url_with_scheme:
\* what the attempt does when the probe raised
HttpsProbeFailure(o) ==
    IF o = "timeout" THEN "raise URLTimeoutError"
    ELSE IF o = "reqerr" THEN "pass"
    ELSE "propagate"

\* the connection error of the http probe is not swallowed
HttpProbeFailure_Escapes(o) ==
    IF o = "timeout" THEN "raise URLTimeoutError" ELSE "propagate"

\* the except clauses of the http attempt in _get_url_with_scheme
HttpProbeFailure(o) ==
    IF o = "timeout" THEN "raise URLTimeoutError"
    ELSE IF o = "reqerr" THEN "pass"
    ELSE "propagate"

(***************************************************************************)
(* Browser-driven phone nodes (app/service/phone.py): constants and pure   *)
(* helpers                                                                 *)
(***************************************************************************)
\* MissedCallPhoneSafeChecker._MAX_RETRIES
_MAX_RETRIES == 3

\* what a WebDriverWait(...).until(presence_of_element_located(...)) does:
\* the element is found, the wait times out (TimeoutException), or the
\* driver fails otherwise (WebDriverException)
WaitOutcomes == {"found", "timeout", "raise"}

\* what a driver call without a wait does (webdriver.Chrome, send_keys,
\* find_element, click)
DriverOutcomes == {"ok", "raise"}

\* the text of the <sup> element as tokens: "(Lv.", a run of digits, ")",
\* other text
LevelOf == ("0" :> 0) @@ ("3" :> 3)

SupTexts ==
    { <<"(Lv.", "0", ")">>, <<"(Lv.", "3", ")">>, <<"spam", "(Lv.", "3", ")">>,
      <<"(Lv.", ")">>, <<>> }

\* what _find_sup returns: None, or a <sup> element with one of the texts
SupOutcomes == {[found |-> FALSE, text |-> <<>>]} \cup {[found |-> TRUE, text |-> t] : t \in SupTexts}

\* re.search(r"\(Lv\.(\d+)\)", text): int(match.group(1)) of the first match,
\* else raise ExtractLevelFailureError
_extract_level(text) ==
    LET hits == {i \in 1..Len(text) :
                    /\ i + 2 <= Len(text)
                    /\ text[i] = "(Lv."
                    /\ text[i + 1] \in DOMAIN LevelOf
                    /\ text[i + 2] = ")"}
    IN  IF hits = {}
        THEN [raised |-> "ExtractLevelFailureError", value |-> 0]
        ELSE LET first == CHOOSE i \in hits : \A j \in hits : i <= j
             IN  [raised |-> "none", value |-> LevelOf[text[first + 1]]]

\* the body of the try block of the retry loop after the result element was
\* found: _find_sup, the None test, _extract_level
ExtractStep(sup) ==
    IF ~sup.found
    THEN [raised |-> "ExtractLevelFailureError", value |-> 0]
    ELSE _extract_level(sup.text)

\* the verdict starts as safe
InitialVerdict_Safe == TRUE

\* is_safe: bool = False, before the retry loop
InitialVerdict == FALSE

\* if spam_level > 0: is_safe = False  else: is_safe = True
LevelVerdict(spam_level) == ~(spam_level > 0)

\* while True: the loop test never ends the loop
LoopTarget_Unbounded(rc) == "mc_attempt"

\* while retry_count < self._MAX_RETRIES: where control goes at the loop test
LoopTarget(rc) == IF rc < _MAX_RETRIES THEN "mc_attempt" ELSE "mc_quit"

\* the three exceptions the body of the retry loop can raise
LoopErrors == {"TimeoutException", "WebDriverException", "ExtractLevelFailureError"}

\* every exception of the loop body is retried
InnerHandler_RetryAll(type, rc) == IF rc < _MAX_RETRIES THEN "sleep" ELSE "raise"

\* the except clauses of the retry loop.  except ExtractLevelFailureError:
\* if retry_count < self._MAX_RETRIES: sleep and count, else: raise.
\* except Exception: raise.
InnerHandler(type, rc) ==
    IF type = "ExtractLevelFailureError"
    THEN IF rc < _MAX_RETRIES THEN "sleep" ELSE "raise"
    ELSE "raise"

(***************************************************************************)
(* URL nodes (app/service/url.py): the answers of the providers and the    *)
(* pure part of each is_safe                                               *)
(***************************************************************************)
\* what is_safe does: it returns a verdict or an exception leaves it
Returns(v) == [raised |-> "none", value |-> v]

Raises(type) == [raised |-> type, value |-> FALSE]

\* str.lower() on the tokens of the providers' answers
LowerOf ==
    ("clientHold" :> "clienthold") @@ ("clientTransferProhibited" :> "clienttransferprohibited") @@
    ("REDACTED" :> "redacted") @@ ("Unsupported Domain Extension" :> "unsupported domain extension") @@
    ("Invalid API Key" :> "invalid api key") @@ ("Hong Gildong" :> "hong gildong")

Lower(t) == IF t \in DOMAIN LowerOf THEN LowerOf[t] ELSE t

\* text.lower().startswith(prefix) on a text given as its tokens
LowerStartsWith(text, prefix) == text # <<>> /\ Lower(Head(text)) = prefix

\* the body of the Phishtank answer: not JSON, or meta.status,
\* results.in_database and results.valid
PhishtankBodies ==
    {[json |-> FALSE, status |-> "none", in_database |-> FALSE, valid |-> FALSE],
     [json |-> TRUE, status |-> "error", in_database |-> FALSE, valid |-> FALSE]}
    \cup {[json |-> TRUE, status |-> "success", in_database |-> d, valid |-> v] : d, v \in BOOLEAN}

\* X-Request-Count and X-Request-Limit: below, at and above the limit
PhishtankQuotas == {[cnt |-> c, limit |-> 1] : c \in 0..2}

\* the answers to requests.post: the request raises; the interval header
\* holds no number; or quota headers and a body
PhishtankReplies ==
    {[node |-> "Phishtank", post |-> "raise", interval |-> FALSE, cnt |-> 0, limit |-> 1,
      body |-> [json |-> FALSE, status |-> "none", in_database |-> FALSE, valid |-> FALSE]]}
    \cup {[node |-> "Phishtank", post |-> "ok", interval |-> FALSE, cnt |-> 0, limit |-> 1, body |-> b] :
            b \in PhishtankBodies}
    \cup {[node |-> "Phishtank", post |-> "ok", interval |-> TRUE, cnt |-> q.cnt, limit |-> q.limit,
           body |-> b] : q \in PhishtankQuotas, b \in PhishtankBodies}

\* PhishtankURLSafeChecker.is_safe after requests.post: the three headers,
\* `if request_cnt >= request_limit: raise PhishtankRatelimitExceedError',
\* json.loads, meta.status, results.in_database, results.valid
PhishtankIsSafe(res) ==
    IF res.post = "raise" THEN Raises("RequestException")
    ELSE IF ~res.interval THEN Raises("PhishtankExtractionFailureError")
    ELSE IF res.cnt >= res.limit THEN Raises("PhishtankRatelimitExceedError")
    ELSE IF ~res.body.json THEN Raises("JSONDecodeError")
    ELSE IF res.body.status # "success" THEN Raises("PhishtankAPIRequestFailureError")
    ELSE IF ~res.body.in_database THEN Returns(TRUE)
    ELSE Returns(~res.body.valid)

\* within_days=30 of both registration heuristics
within_days == 30

\* the registration facts of a domain: whether the record has a
\* registration date and the age in days it gives, the list of status
\* strings, the registrant name as tokens (<<>>: the entry is empty)
Facts ==
    [ dated      : {TRUE},
      age        : {30, 31},
      statuses   : {<<>>, <<"clientTransferProhibited">>,
                    <<"clientTransferProhibited", "clientHold">>, <<"inactive">>},
      registrant : {<<>>, <<"Hong Gildong">>, <<"REDACTED", " FOR PRIVACY">>} ]
    \cup {[dated |-> FALSE, age |-> 0, statuses |-> <<"clientTransferProhibited">>,
           registrant |-> <<"Hong Gildong">>]}

NoFacts == [dated |-> FALSE, age |-> 0, statuses |-> <<>>, registrant |-> <<>>]

\* suspicious_statuses = ["clienthold", "inactive"]
suspicious_statuses == {"clienthold", "inactive"}

\* the for loop of _has_suspicious_status over the lowered statuses
AnySuspicious(statuses) ==
    \E k \in 1..Len(statuses) : Lower(statuses[k]) \in suspicious_statuses

\* age <= within_days
IsNewborn(age) == age <= within_days

\* an answer of the WhoXY balance request: requests.get raises, the HTTP
\* status is an error, or a body with status and live_whois_balance
BalanceReplies ==
    {[node |-> "WhoXY balance", get |-> g, http_ok |-> h, status |-> st, credit |-> c] :
        g \in {"ok", "raise"}, h \in BOOLEAN, st \in {0, 1}, c \in {0, 5}}

\* the answers that differ for the code: one per path of _check_balance
BalanceRepliesUsed ==
    {r \in BalanceReplies :
        /\ r.get = "raise" => (~r.http_ok /\ r.status = 0 /\ r.credit = 0)
        /\ (r.get = "ok" /\ ~r.http_ok) => (r.status = 0 /\ r.credit = 0)
        /\ (r.http_ok /\ r.status = 0) => r.credit = 0
        /\ r.http_ok => r.get = "ok"}

\* WhoXYURLSafeChecker._check_balance
_check_balance(res) ==
    IF res.get = "raise" THEN Raises("RequestException")
    ELSE IF ~res.http_ok THEN Raises("RequestFailureError")
    ELSE IF ~(res.status = 1) THEN Raises("RequestFailureError")
    ELSE Returns(res.credit > 0)

\* a dry balance is only logged: the query is made all the same
BalanceGate_Ignore(has_credit) == Returns(TRUE)

\* has_credit = self._check_balance(); if not has_credit: raise
\* WhoXYAPIBalanceDryoutError
BalanceGate(has_credit) ==
    IF ~has_credit.value THEN Raises("WhoXYAPIBalanceDryoutError") ELSE Returns(TRUE)

\* the answers of the WhoXY whois request
WhoXYReplies ==
    {[node |-> "WhoXY", get |-> "raise", http_ok |-> FALSE, status |-> 0, status_reason |-> <<>>,
      whois_data |-> NoFacts],
     [node |-> "WhoXY", get |-> "ok", http_ok |-> FALSE, status |-> 0, status_reason |-> <<>>,
      whois_data |-> NoFacts]}
    \cup {[node |-> "WhoXY", get |-> "ok", http_ok |-> TRUE, status |-> 0, status_reason |-> sr,
           whois_data |-> NoFacts] :
            sr \in {<<"Unsupported Domain Extension", ": xyz">>, <<"Invalid API Key">>}}
    \cup {[node |-> "WhoXY", get |-> "ok", http_ok |-> TRUE, status |-> 1, status_reason |-> <<>>,
           whois_data |-> f] : f \in Facts}

\* WhoXY: _is_registered_recently, _has_suspicious_status,
\* _has_anonymized_registrant and the final test
WhoXYHeuristic(f) ==
    IF ~f.dated THEN Raises("ResponseParseFailure")
    ELSE IF f.statuses = <<>> THEN Raises("ResponseParseFailure")
    ELSE IF f.registrant = <<>> THEN Raises("ResponseParseFailure")
    ELSE Returns(~(IsNewborn(f.age) \/ AnySuspicious(f.statuses)
                   \/ LowerStartsWith(f.registrant, "redacted")))

\* every non-success answer of WhoXY is a failure
WhoXYNonSuccess_Fails(status_reason) == Raises("RequestFailureError")

\* if not status == 1: safe = True when status_reason.lower() starts with
\* "unsupported domain extension", else raise RequestFailureError
WhoXYNonSuccess(status_reason) ==
    IF LowerStartsWith(status_reason, "unsupported domain extension")
    THEN Returns(TRUE)
    ELSE Raises("RequestFailureError")

\* WhoXYURLSafeChecker.is_safe after the whois request
WhoXYIsSafe(res) ==
    IF res.get = "raise" THEN Raises("RequestException")
    ELSE IF ~res.http_ok THEN Raises("RequestFailureError")
    ELSE IF ~(res.status = 1) THEN WhoXYNonSuccess(res.status_reason)
    ELSE WhoXYHeuristic(res.whois_data)

\* the answers of the KISA request
KISAReplies ==
    {[node |-> "KISA", get |-> "raise", http_ok |-> FALSE, result_code |-> "none", whois_data |-> NoFacts],
     [node |-> "KISA", get |-> "ok", http_ok |-> FALSE, result_code |-> "none", whois_data |-> NoFacts]}
    \cup {[node |-> "KISA", get |-> "ok", http_ok |-> TRUE, result_code |-> c, whois_data |-> NoFacts] :
            c \in {"031", "021"}}
    \cup {[node |-> "KISA", get |-> "ok", http_ok |-> TRUE, result_code |-> "10000", whois_data |-> f] :
            f \in Facts}

\* KISA: _is_registered_recently, _has_suspicious_status (an empty list is
\* not suspicious), _has_anonymized_registrant and the final test
KISAHeuristic(f) ==
    IF ~f.dated THEN Raises("ResponseParseFailure")
    ELSE Returns(~(IsNewborn(f.age) \/ AnySuspicious(f.statuses)
                   \/ LowerStartsWith(f.registrant, "redacted")))

\* if not result_code == "10000": safe = True for "031", else raise
\* RequestFailureError
KISANonSuccess(result_code) ==
    IF result_code = "031" THEN Returns(TRUE) ELSE Raises("RequestFailureError")

\* KISAURLSafeChecker.is_safe after the request
KISAIsSafe(res) ==
    IF res.get = "raise" THEN Raises("RequestException")
    ELSE IF ~res.http_ok THEN Raises("RequestFailureError")
    ELSE IF ~(res.result_code = "10000") THEN KISANonSuccess(res.result_code)
    ELSE KISAHeuristic(res.whois_data)

(***************************************************************************)
(* The SafeChecker instance and the request threads                        *)
(***************************************************************************)
\* the attributes assigned by SafeChecker.__init__
SafeCheckerInit ==
    [ _url_safe_checker   |-> _url_safe_checker,
      _phone_safe_checker |-> _phone_safe_checker,
      _phone_whitelist    |-> _phone_whitelist,
      _phone_blacklist    |-> _phone_blacklist,
      _url_whitelist      |-> _url_whitelist,
      _url_blacklist      |-> _url_blacklist ]

\* no URL node was queried yet
NoReply == [node |-> "none"]

\* the request threads of the server
Threads == {"t1", "t2"}

\* the locals of a thread that runs no call
IdleFrame ==
    [ pc |-> "idle", op |-> "none", raw |-> <<>>, subject |-> <<>>, probes |-> <<>>,
      consulted |-> <<>>, invoked |-> <<>>, node_ok |-> <<>>, exc |-> NoExc,
      outcome |-> NoOutcome, driver |-> "none", retry_count |-> 0, is_safe |-> FALSE,
      events |-> <<>>, node_exc |-> "none", reply |-> NoReply ]

(***************************************************************************)
(* Initial state: the SafeChecker is constructed and no call is running    *)
(***************************************************************************)
Init ==
    /\ pc = "idle"
    /\ op = "none"
    /\ raw = <<>>
    /\ subject = <<>>
    /\ probes = <<>>
    /\ consulted = <<>>
    /\ invoked = <<>>
    /\ node_ok = <<>>
    /\ exc = NoExc
    /\ outcome = NoOutcome
    /\ driver = "none"
    /\ retry_count = 0
    /\ is_safe = FALSE
    /\ events = <<>>
    /\ node_exc = "none"
    /\ reply = NoReply
    /\ self = SafeCheckerInit
    /\ cur = "t1"
    /\ frames = [t \in Threads |-> IdleFrame]

(***************************************************************************)
(* check_phone_safety                                                      *)
(***************************************************************************)
\* the server hands a raw phone number to check_phone_safety
CallPhone ==
    /\ UNCHANGED svars
    /\ pc = "idle"
    /\ \E r \in PhoneInputs :
        /\ raw' = r
        /\ subject' = r
    /\ op' = "phone"
    /\ pc' = "p_normalize"
    /\ UNCHANGED <<probes, consulted, invoked, node_ok, exc, outcome>>
    /\ UNCHANGED nvars

\* first try block: phone_number = self._normalize_phone_number(phone_number)
PhoneNormalize ==
    /\ UNCHANGED svars
    /\ pc = "p_normalize"
    /\ LET n == _normalize_phone_number(subject)
       IN  IF n.raised # "none"
           THEN /\ exc' = Raised(n.raised, "normalize")
                /\ outcome' = NormalizeHandler(n.raised)
                /\ pc' = "done"
                /\ UNCHANGED subject
           ELSE /\ subject' = n.value
                /\ pc' = "p_override"
                /\ UNCHANGED <<exc, outcome>>
    /\ UNCHANGED <<op, raw, probes, consulted, invoked, node_ok>>
    /\ UNCHANGED nvars

\* the whitelist test is missing
PhoneOverride_NoWhitelist ==
    /\ UNCHANGED svars
    /\ pc = "p_override"
    /\ IF subject \in self._phone_blacklist
       THEN /\ consulted' = consulted \o <<"_phone_blacklist">>
            /\ outcome' = Result(FALSE, <<"Invalid phone number which listed on blacklist">>)
            /\ pc' = "done"
       ELSE /\ consulted' = consulted \o <<"_phone_blacklist">>
            /\ pc' = "p_node"
            /\ UNCHANGED outcome
    /\ UNCHANGED <<op, raw, subject, probes, invoked, node_ok, exc>>
    /\ UNCHANGED nvars

\* second try block, the two membership tests
PhoneOverride ==
    /\ UNCHANGED svars
    /\ pc = "p_override"
    /\ IF subject \in self._phone_whitelist
       THEN /\ consulted' = consulted \o <<"_phone_whitelist">>
            /\ outcome' = Result(TRUE, <<"Valid phone number which listed on whitelist">>)
            /\ pc' = "done"
       ELSE IF subject \in self._phone_blacklist
       THEN /\ consulted' = consulted \o <<"_phone_whitelist", "_phone_blacklist">>
            /\ outcome' = Result(FALSE, <<"Invalid phone number which listed on blacklist">>)
            /\ pc' = "done"
       ELSE /\ consulted' = consulted \o <<"_phone_whitelist", "_phone_blacklist">>
            /\ pc' = "p_node"
            /\ UNCHANGED outcome
    /\ UNCHANGED <<op, raw, subject, probes, invoked, node_ok, exc>>
    /\ UNCHANGED nvars

\* a suspicious verdict ends the evaluation at once, the later nodes are skipped
NodeReturn_ShortCircuit(i, v) ==
    /\ node_ok' = Append(node_ok, v)
    /\ IF v
       THEN /\ pc' = IF i = 3 THEN "p_combine" ELSE "p_node"
            /\ UNCHANGED outcome
       ELSE /\ pc' = "done"
            /\ outcome' = Result(FALSE, <<"suspicious">>)
    /\ UNCHANGED <<exc, node_exc>>

\* is_safe returned the verdict v to check_phone_safety, which goes on with
\* the next statement
NodeReturn(i, v) ==
    /\ node_ok' = Append(node_ok, v)
    /\ pc' = IF i = 3 THEN "p_combine" ELSE "p_node"
    /\ UNCHANGED <<exc, outcome, node_exc>>

\* an exception of the given type left is_safe and reached the except clause
\* of the second try block of check_phone_safety
NodeRaise(i, type) ==
    /\ node_exc' = type
    /\ exc' = Raised("NodeError", NodeName(i))
    /\ outcome' = ConsensusHandler(type)
    /\ pc' = "done"
    /\ UNCHANGED node_ok

\* node_i_ok = self._phone_safe_checker["Node_i"].is_safe(phone_number=phone_number):
\* the call of the next node.  Node_1 (OneOneFourPhoneSafeChecker, one HTTP
\* request) answers at once; Node_2 and Node_3 start their browser procedure.
PhoneQueryNode ==
    /\ UNCHANGED svars
    /\ pc = "p_node"
    /\ LET i == Len(node_ok) + 1
       IN  /\ invoked' = Append(invoked, [node |-> NodeName(i),
                                           checker |-> self._phone_safe_checker[i],
                                           subject |-> subject])
           /\ IF i = 1
              THEN \E r \in NodeOutcomes :
                     /\ events' = Append(events, r)
                     /\ IF r = "raise"
                        THEN NodeRaise(i, "Exception")
                        ELSE NodeReturn(i, r = "true")
              ELSE /\ pc' = IF i = 2 THEN "tc_open" ELSE "mc_open"
                   /\ UNCHANGED <<events, node_ok, exc, outcome, node_exc>>
    /\ UNCHANGED <<op, raw, subject, probes, consulted, driver, retry_count, is_safe>>
    /\ UNCHANGED reply

(***************************************************************************)
(* TheCallPhoneSafeChecker.is_safe (Node_2)                                *)
(***************************************************************************)
\* webdriver.Chrome(service=..., options=...)
TheCallOpen ==
    /\ UNCHANGED svars
    /\ pc = "tc_open"
    /\ \E o \in DriverOutcomes :
        IF o = "ok"
        THEN /\ driver' = "open"
             /\ events' = Append(events, "open")
             /\ pc' = "tc_load"
             /\ UNCHANGED <<node_ok, exc, outcome, node_exc>>
        ELSE /\ events' = Append(events, "raise")
             /\ NodeRaise(2, "WebDriverException")
             /\ UNCHANGED driver
    /\ UNCHANGED <<op, raw, subject, probes, consulted, invoked, retry_count, is_safe>>
    /\ UNCHANGED reply

\* a timeout of the wait for the number input field is taken for the
\* verdict safe, like the timeout of the wait for the report marker
TheCallLoad_TimeoutSafe ==
    /\ UNCHANGED svars
    /\ pc = "tc_load"
    /\ \E o \in WaitOutcomes :
        /\ events' = Append(events, "wait_input:" \o o)
        /\ CASE o = "found" ->
                  /\ pc' = "tc_submit"
                  /\ UNCHANGED <<node_ok, exc, outcome, node_exc, is_safe>>
             [] o = "timeout" ->
                  /\ is_safe' = TRUE
                  /\ pc' = "tc_quit"
                  /\ UNCHANGED <<node_ok, exc, outcome, node_exc>>
             [] OTHER ->
                  /\ NodeRaise(2, "WebDriverException")
                  /\ UNCHANGED is_safe
    /\ UNCHANGED <<op, raw, subject, probes, consulted, invoked, driver, retry_count>>
    /\ UNCHANGED reply

\* driver.get(...) and the wait for the number input field
TheCallLoad ==
    /\ UNCHANGED svars
    /\ pc = "tc_load"
    /\ \E o \in WaitOutcomes :
        /\ events' = Append(events, "wait_input:" \o o)
        /\ CASE o = "found" ->
                  /\ pc' = "tc_submit"
                  /\ UNCHANGED <<node_ok, exc, outcome, node_exc>>
             [] o = "timeout" -> NodeRaise(2, "TimeoutException")
             [] OTHER -> NodeRaise(2, "WebDriverException")
    /\ UNCHANGED <<op, raw, subject, probes, consulted, invoked, driver, retry_count, is_safe>>
    /\ UNCHANGED reply

\* tel_input.send_keys, driver.find_element, query_button.click
TheCallSubmit ==
    /\ UNCHANGED svars
    /\ pc = "tc_submit"
    /\ \E o \in DriverOutcomes :
        /\ events' = Append(events, "submit:" \o o)
        /\ IF o = "ok"
           THEN /\ pc' = "tc_wait"
                /\ UNCHANGED <<node_ok, exc, outcome, node_exc>>
           ELSE NodeRaise(2, "NoSuchElementException")
    /\ UNCHANGED <<op, raw, subject, probes, consulted, invoked, driver, retry_count, is_safe>>
    /\ UNCHANGED reply

\* the inner try block: the wait for the report marker
TheCallWaitMarker ==
    /\ UNCHANGED svars
    /\ pc = "tc_wait"
    /\ \E o \in WaitOutcomes :
        /\ events' = Append(events, "wait_marker:" \o o)
        /\ CASE o = "found" ->
                  /\ is_safe' = FALSE
                  /\ pc' = "tc_quit"
                  /\ UNCHANGED <<node_ok, exc, outcome, node_exc>>
             [] o = "timeout" ->
                  /\ is_safe' = TRUE
                  /\ pc' = "tc_quit"
                  /\ UNCHANGED <<node_ok, exc, outcome, node_exc>>
             [] OTHER ->
                  /\ NodeRaise(2, "WebDriverException")
                  /\ UNCHANGED is_safe
    /\ UNCHANGED <<op, raw, subject, probes, consulted, invoked, driver, retry_count>>
    /\ UNCHANGED reply

\* driver.quit() and return is_safe
TheCallQuit ==
    /\ UNCHANGED svars
    /\ pc = "tc_quit"
    /\ driver' = "quit"
    /\ events' = Append(events, "quit")
    /\ NodeReturn(2, is_safe)
    /\ UNCHANGED <<op, raw, subject, probes, consulted, invoked, retry_count, is_safe>>
    /\ UNCHANGED reply

(***************************************************************************)
(* MissedCallPhoneSafeChecker.is_safe (Node_3)                             *)
(***************************************************************************)
\* webdriver.Chrome(service=..., options=...)
MissedCallOpen ==
    /\ UNCHANGED svars
    /\ pc = "mc_open"
    /\ \E o \in DriverOutcomes :
        IF o = "ok"
        THEN /\ driver' = "open"
             /\ events' = Append(events, "open")
             /\ pc' = "mc_load"
             /\ UNCHANGED <<node_ok, exc, outcome, node_exc>>
        ELSE /\ events' = Append(events, "raise")
             /\ NodeRaise(3, "WebDriverException")
             /\ UNCHANGED driver
    /\ UNCHANGED <<op, raw, subject, probes, consulted, invoked, retry_count, is_safe>>
    /\ UNCHANGED reply

\* driver.get(...) and the wait for the number input field
MissedCallLoad ==
    /\ UNCHANGED svars
    /\ pc = "mc_load"
    /\ \E o \in WaitOutcomes :
        /\ events' = Append(events, "wait_input:" \o o)
        /\ CASE o = "found" ->
                  /\ pc' = "mc_submit"
                  /\ UNCHANGED <<node_ok, exc, outcome, node_exc>>
             [] o = "timeout" -> NodeRaise(3, "TimeoutException")
             [] OTHER -> NodeRaise(3, "WebDriverException")
    /\ UNCHANGED <<op, raw, subject, probes, consulted, invoked, driver, retry_count, is_safe>>
    /\ UNCHANGED reply

\* send_keys, find_element, click; then retry_count = 0, is_safe = False and
\* the first test of the while condition
MissedCallSubmit ==
    /\ UNCHANGED svars
    /\ pc = "mc_submit"
    /\ \E o \in DriverOutcomes :
        /\ events' = Append(events, "submit:" \o o)
        /\ IF o = "ok"
           THEN /\ retry_count' = 0
                /\ is_safe' = InitialVerdict
                /\ pc' = LoopTarget(0)
                /\ UNCHANGED <<node_ok, exc, outcome, node_exc>>
           ELSE /\ NodeRaise(3, "NoSuchElementException")
                /\ UNCHANGED <<retry_count, is_safe>>
    /\ UNCHANGED <<op, raw, subject, probes, consulted, invoked, driver>>
    /\ UNCHANGED reply

\* the exception raised in the loop body is handled by the except clauses
LoopBodyRaises(type, what) ==
    IF InnerHandler(type, retry_count) = "sleep"
    THEN /\ events' = events \o <<"attempt", what, "sleep">>
         /\ retry_count' = retry_count + 1
         /\ pc' = LoopTarget(retry_count + 1)
         /\ UNCHANGED <<is_safe, node_ok, exc, outcome, node_exc>>
    ELSE /\ events' = events \o <<"attempt", what>>
         /\ NodeRaise(3, type)
         /\ UNCHANGED <<retry_count, is_safe>>

\* one pass of the while body: the wait for the result element, the
\* extraction, the except clauses, and the next test of the while condition
MissedCallAttempt ==
    /\ UNCHANGED svars
    /\ pc = "mc_attempt"
    /\ \E w \in WaitOutcomes :
        CASE w = "timeout" -> LoopBodyRaises("TimeoutException", "wait_result:timeout")
          [] w = "raise" -> LoopBodyRaises("WebDriverException", "wait_result:raise")
          [] OTHER ->
               \E sup \in SupOutcomes :
                 LET r == ExtractStep(sup)
                 IN  IF r.raised = "none"
                     THEN /\ events' = events \o <<"attempt", "extracted:" \o ToString(r.value)>>
                          /\ is_safe' = LevelVerdict(r.value)
                          /\ pc' = "mc_quit"
                          /\ UNCHANGED <<retry_count, node_ok, exc, outcome, node_exc>>
                     ELSE LoopBodyRaises(r.raised, "extract_failed")
    /\ UNCHANGED <<op, raw, subject, probes, consulted, invoked, driver>>
    /\ UNCHANGED reply

\* driver.quit() and return is_safe
MissedCallQuit ==
    /\ UNCHANGED svars
    /\ pc = "mc_quit"
    /\ driver' = "quit"
    /\ events' = Append(events, "quit")
    /\ NodeReturn(3, is_safe)
    /\ UNCHANGED <<op, raw, subject, probes, consulted, invoked, retry_count, is_safe>>
    /\ UNCHANGED reply

\* the strict AND, the three report lines and the return
PhoneCombine ==
    /\ UNCHANGED svars
    /\ pc = "p_combine"
    /\ outcome' = Result(Consensus(node_ok), JoinedReport(self._phone_safe_checker, node_ok))
    /\ pc' = "done"
    /\ UNCHANGED <<op, raw, subject, probes, consulted, invoked, node_ok, exc>>
    /\ UNCHANGED nvars

\* the call has returned or raised; the checker is ready for the next call
Return ==
    /\ UNCHANGED svars
    /\ pc = "done"
    /\ pc' = "idle"
    /\ op' = "none"
    /\ raw' = <<>>
    /\ subject' = <<>>
    /\ probes' = <<>>
    /\ consulted' = <<>>
    /\ invoked' = <<>>
    /\ node_ok' = <<>>
    /\ exc' = NoExc
    /\ outcome' = NoOutcome
    /\ driver' = "none"
    /\ retry_count' = 0
    /\ is_safe' = FALSE
    /\ events' = <<>>
    /\ node_exc' = "none"
    /\ reply' = NoReply

(***************************************************************************)
(* check_url_safety                                                        *)
(***************************************************************************)
\* the server hands a raw URL to check_url_safety
CallUrl ==
    /\ UNCHANGED svars
    /\ pc = "idle"
    /\ \E r \in UrlInputs :
        /\ raw' = r
        /\ subject' = r
    /\ op' = "url"
    /\ pc' = "u_validate"
    /\ UNCHANGED <<probes, consulted, invoked, node_ok, exc, outcome>>
    /\ UNCHANGED nvars

\* an exception leaves _preprocess_url and reaches the handlers of check_url_safety
PreprocessRaise(type, stage) ==
    /\ exc' = Raised(type, stage)
    /\ outcome' = PreprocessHandler(type)
    /\ pc' = "done"

\* the override check and the nodes run on the validated input, before
\* scheme resolution and redirect expansion
UrlValidate_SkipResolve ==
    /\ UNCHANGED svars
    /\ pc = "u_validate"
    /\ LET url == Strip(subject)
       IN  IF ~_is_url(url)
           THEN /\ PreprocessRaise("InvalidArgumentError", "validate")
                /\ UNCHANGED subject
           ELSE /\ subject' = url
                /\ pc' = "u_override"
                /\ UNCHANGED <<exc, outcome>>
    /\ UNCHANGED <<op, raw, probes, consulted, invoked, node_ok>>
    /\ UNCHANGED nvars

\* _preprocess_url: url.strip() and the _is_url test
UrlValidate ==
    /\ UNCHANGED svars
    /\ pc = "u_validate"
    /\ LET url == Strip(subject)
       IN  IF ~_is_url(url)
           THEN /\ PreprocessRaise("InvalidArgumentError", "validate")
                /\ UNCHANGED subject
           ELSE /\ subject' = url
                /\ pc' = "u_https"
                /\ UNCHANGED <<exc, outcome>>
    /\ UNCHANGED <<op, raw, probes, consulted, invoked, node_ok>>
    /\ UNCHANGED nvars

\* _get_url_with_scheme, first try block
ProbeHttps ==
    /\ UNCHANGED svars
    /\ pc = "u_https"
    /\ LET https_url == _ensure_scheme(subject, "https")
       IN  \E o \in SchemeProbeOutcomes :
            /\ probes' = Append(probes, [stage |-> "https", url |-> https_url, outcome |-> o])
            /\ IF o = "response"
               THEN /\ subject' = https_url
                    /\ pc' = "u_expand"
                    /\ UNCHANGED <<exc, outcome>>
               ELSE CASE HttpsProbeFailure(o) = "raise URLTimeoutError" ->
                           /\ PreprocessRaise("URLTimeoutError", "resolve")
                           /\ UNCHANGED subject
                      [] HttpsProbeFailure(o) = "pass" ->
                           /\ pc' = "u_http"
                           /\ UNCHANGED <<subject, exc, outcome>>
                      [] OTHER ->
                           /\ PreprocessRaise("Exception", "resolve")
                           /\ UNCHANGED subject
    /\ UNCHANGED <<op, raw, consulted, invoked, node_ok>>
    /\ UNCHANGED nvars

\* _get_url_with_scheme, second try block and the final raise
ProbeHttp ==
    /\ UNCHANGED svars
    /\ pc = "u_http"
    /\ LET http_url == _ensure_scheme(subject, "http")
       IN  \E o \in SchemeProbeOutcomes :
            /\ probes' = Append(probes, [stage |-> "http", url |-> http_url, outcome |-> o])
            /\ IF o = "response"
               THEN /\ subject' = http_url
                    /\ pc' = "u_expand"
                    /\ UNCHANGED <<exc, outcome>>
               ELSE CASE HttpProbeFailure(o) = "raise URLTimeoutError" ->
                           /\ PreprocessRaise("URLTimeoutError", "resolve")
                           /\ UNCHANGED subject
                      [] HttpProbeFailure(o) = "pass" ->
                           /\ PreprocessRaise("InvalidSchemeError", "resolve")
                           /\ UNCHANGED subject
                      [] OTHER ->
                           /\ PreprocessRaise("Exception", "resolve")
                           /\ UNCHANGED subject
    /\ UNCHANGED <<op, raw, consulted, invoked, node_ok>>
    /\ UNCHANGED nvars

\* a 404 answer is not an error: the URL is returned as it is
ExpandFailure_Ignore404(o) ==
    CASE o = "timeout" -> "URLTimeoutError"
      [] o = "reqerr"  -> "RequestException"
      [] o = "other"   -> "Exception"
      [] OTHER         -> "none"

\* the exception that leaves _expand_short_url: except requests.Timeout:
\* raise URLTimeoutError; any other exception of requests.head is not
\* caught; status 404 raises URLNotFoundError
ExpandFailure(o) ==
    CASE o = "timeout" -> "URLTimeoutError"
      [] o = "reqerr"  -> "RequestException"
      [] o = "other"   -> "Exception"
      [] o = "404"     -> "URLNotFoundError"
      [] OTHER         -> "none"

\* _expand_short_url
ExpandShortUrl ==
    /\ UNCHANGED svars
    /\ pc = "u_expand"
    /\ \E o \in ExpandProbeOutcomes :
        /\ probes' = Append(probes, [stage |-> "expand", url |-> subject, outcome |-> o])
        /\ CASE ExpandFailure(o) # "none" ->
                  /\ PreprocessRaise(ExpandFailure(o), "expand")
                  /\ UNCHANGED subject
             [] o \in {"301", "302"} ->
                  /\ \E target \in RedirectTargets : subject' = target
                  /\ pc' = "u_override"
                  /\ UNCHANGED <<exc, outcome>>
             [] OTHER ->
                  /\ pc' = "u_override"
                  /\ UNCHANGED <<subject, exc, outcome>>
    /\ UNCHANGED <<op, raw, consulted, invoked, node_ok>>
    /\ UNCHANGED nvars

\* second try block of check_url_safety, the two membership tests: the
\* code tests the URL against self._phone_whitelist and self._phone_blacklist
UrlOverride ==
    /\ UNCHANGED svars
    /\ pc = "u_override"
    /\ IF subject \in self._phone_whitelist
       THEN /\ consulted' = consulted \o <<"_phone_whitelist">>
            /\ outcome' = Result(TRUE, <<"Valid url which listed on whitelist">>)
            /\ pc' = "done"
       ELSE IF subject \in self._phone_blacklist
       THEN /\ consulted' = consulted \o <<"_phone_whitelist", "_phone_blacklist">>
            /\ outcome' = Result(FALSE, <<"Invalid url which listed on blacklist">>)
            /\ pc' = "done"
       ELSE /\ consulted' = consulted \o <<"_phone_whitelist", "_phone_blacklist">>
            /\ pc' = "u_node"
            /\ UNCHANGED outcome
    /\ UNCHANGED <<op, raw, subject, probes, invoked, node_ok, exc>>
    /\ UNCHANGED nvars

\* is_safe of URL node i ends with r, after the events ev
UrlNodeEnds(i, r, ev) ==
    IF r.raised # "none"
    THEN /\ events' = events \o ev \o <<"raise">>
         /\ node_exc' = r.raised
         /\ exc' = Raised("NodeError", NodeName(i))
         /\ outcome' = ConsensusHandler(r.raised)
         /\ pc' = "done"
         /\ UNCHANGED node_ok
    ELSE /\ events' = events \o ev \o <<IF r.value THEN "true" ELSE "false">>
         /\ node_ok' = Append(node_ok, r.value)
         /\ pc' = IF i = 3 THEN "u_combine" ELSE "u_node"
         /\ UNCHANGED <<exc, outcome, node_exc>>

\* node_i_ok = self._url_safe_checker["Node_i"].is_safe(url=url): Node_1
\* (Phishtank) and Node_3 (KISA) make one request; Node_2 (WhoXY) starts
\* with the balance request.  The providers answer from the sets P and K.
UrlQueryNodeFrom(P, K) ==
    /\ UNCHANGED svars
    /\ pc = "u_node"
    /\ LET i == Len(node_ok) + 1
       IN  /\ invoked' = Append(invoked, [node |-> NodeName(i),
                                           checker |-> self._url_safe_checker[i],
                                           subject |-> subject])
           /\ CASE i = 1 ->
                     \E res \in P :
                        /\ reply' = res
                        /\ UrlNodeEnds(1, PhishtankIsSafe(res), <<"post">>)
                [] i = 2 ->
                     /\ pc' = "wx_balance"
                     /\ UNCHANGED <<node_ok, exc, outcome, events, node_exc, reply>>
                [] OTHER ->
                     \E res \in K :
                        /\ reply' = res
                        /\ UrlNodeEnds(3, KISAIsSafe(res), <<"kisa">>)
    /\ UNCHANGED <<op, raw, subject, probes, consulted, driver, retry_count, is_safe>>

UrlQueryNode == UrlQueryNodeFrom(PhishtankReplies, KISAReplies)

\* WhoXYURLSafeChecker.is_safe: has_credit = self._check_balance() and the
\* test of has_credit.  The provider answers from the set B.
WhoXYBalanceFrom(B) ==
    /\ UNCHANGED svars
    /\ pc = "wx_balance"
    /\ \E res \in B :
        /\ reply' = res
        /\ LET has_credit == _check_balance(res)
               gate == IF has_credit.raised # "none" THEN has_credit ELSE BalanceGate(has_credit)
           IN  IF gate.raised # "none"
               THEN UrlNodeEnds(2, gate, <<"balance">>)
               ELSE /\ events' = Append(events, "balance")
                    /\ pc' = "wx_query"
                    /\ UNCHANGED <<node_ok, exc, outcome, node_exc>>
    /\ UNCHANGED <<op, raw, subject, probes, consulted, invoked, driver, retry_count, is_safe>>

WhoXYBalance == WhoXYBalanceFrom(BalanceRepliesUsed)

\* WhoXYURLSafeChecker.is_safe: the whois request and the verdict.  The
\* provider answers from the set W.
WhoXYQueryFrom(W) ==
    /\ UNCHANGED svars
    /\ pc = "wx_query"
    /\ \E res \in W :
        /\ reply' = res
        /\ UrlNodeEnds(2, WhoXYIsSafe(res), <<"whois">>)
    /\ UNCHANGED <<op, raw, subject, probes, consulted, invoked, driver, retry_count, is_safe>>

WhoXYQuery == WhoXYQueryFrom(WhoXYReplies)

\* the strict AND, the three report lines and the return
UrlCombine ==
    /\ UNCHANGED svars
    /\ pc = "u_combine"
    /\ outcome' = Result(Consensus(node_ok), JoinedReport(self._url_safe_checker, node_ok))
    /\ pc' = "done"
    /\ UNCHANGED <<op, raw, subject, probes, consulted, invoked, node_ok, exc>>
    /\ UNCHANGED nvars

Next ==
    \/ CallPhone
    \/ PhoneNormalize
    \/ PhoneOverride
    \/ PhoneQueryNode
    \/ TheCallOpen
    \/ TheCallLoad
    \/ TheCallSubmit
    \/ TheCallWaitMarker
    \/ TheCallQuit
    \/ MissedCallOpen
    \/ MissedCallLoad
    \/ MissedCallSubmit
    \/ MissedCallAttempt
    \/ MissedCallQuit
    \/ PhoneCombine
    \/ CallUrl
    \/ UrlValidate
    \/ ProbeHttps
    \/ ProbeHttp
    \/ ExpandShortUrl
    \/ UrlOverride
    \/ UrlQueryNode
    \/ WhoXYBalance
    \/ WhoXYQuery
    \/ UrlCombine
    \/ Return

Spec == Init /\ [][Next]_vars

\* a thread inside the retry loop of MissedCallPhoneSafeChecker.is_safe keeps
\* running: the wait has a 10 s timeout and time.sleep(3) returns
FairSpec == Spec /\ WF_vars(MissedCallAttempt) /\ WF_vars(MissedCallQuit)

(***************************************************************************)
(* Concurrent requests: the server runs check_phone_safety and             *)
(* check_url_safety of the one SafeChecker on several threads              *)
(***************************************************************************)
\* the inputs of the concurrent requests
ConcPhoneInputs ==
    { <<"0", "1", "0", "-", "9", "2", "5", "6", "-", "3", "6", "8", "8">>,
      <<"0", "1", "0", "8", "2", "5", "3", "9", "4", "5", "1">>,
      <<"1", "-", "0">>,
      <<"a">> }

ConcUrlInputs == {<<"r3born.cc">>, <<"1.2.3.4">>}

\* a thread of the server calls check_phone_safety
ConcCallPhone ==
    /\ UNCHANGED svars
    /\ pc = "idle"
    /\ \E r \in ConcPhoneInputs :
        /\ raw' = r
        /\ subject' = r
    /\ op' = "phone"
    /\ pc' = "p_normalize"
    /\ UNCHANGED <<probes, consulted, invoked, node_ok, exc, outcome>>
    /\ UNCHANGED nvars

\* a thread of the server calls check_url_safety
ConcCallUrl ==
    /\ UNCHANGED svars
    /\ pc = "idle"
    /\ \E r \in ConcUrlInputs :
        /\ raw' = r
        /\ subject' = r
    /\ op' = "url"
    /\ pc' = "u_validate"
    /\ UNCHANGED <<probes, consulted, invoked, node_ok, exc, outcome>>
    /\ UNCHANGED nvars

\* the answers of the providers to the concurrent requests: for each
\* request one answer that is a safe verdict, one that is a suspicious
\* verdict and one that is a failure
ConcPhishtankReplies ==
    {res \in PhishtankReplies :
        /\ res.interval
        /\ res.cnt \in {0, 1}
        /\ res.body.json /\ res.body.status = "success"
        /\ res.body.valid => res.body.in_database
        /\ res.cnt = 1 => ~res.body.in_database}

ConcBalanceReplies == {res \in BalanceRepliesUsed : res.http_ok /\ res.status = 1}

ConcFacts ==
    {f \in Facts : f.dated /\ f.age = 31 /\ f.registrant = <<"Hong Gildong">> /\ Len(f.statuses) # 1}

ConcWhoXYReplies == {res \in WhoXYReplies : res.status = 1 /\ res.whois_data \in ConcFacts}

ConcKISAReplies ==
    {res \in KISAReplies :
        /\ res.http_ok
        /\ res.result_code \in {"031", "021", "10000"}
        /\ res.result_code = "10000" =>
              (res.whois_data \in ConcFacts /\ res.whois_data.statuses # <<>>)}

ConcUrlQueryNode == UrlQueryNodeFrom(ConcPhishtankReplies, ConcKISAReplies)

ConcWhoXYBalance == WhoXYBalanceFrom(ConcBalanceReplies)

ConcWhoXYQuery == WhoXYQueryFrom(ConcWhoXYReplies)

\* the locals of the running thread
CurFrame ==
    [ pc |-> pc, op |-> op, raw |-> raw, subject |-> subject, probes |-> probes,
      consulted |-> consulted, invoked |-> invoked, node_ok |-> node_ok, exc |-> exc,
      outcome |-> outcome, driver |-> driver, retry_count |-> retry_count,
      is_safe |-> is_safe, events |-> events, node_exc |-> node_exc, reply |-> reply ]

\* the subject is kept on the shared instance instead of in a local: a
\* thread switch leaves it as the other thread wrote it
Switch_SharedSubject ==
    \E t \in Threads \ {cur} :
        /\ cur' = t
        /\ frames' = [frames EXCEPT ![cur] = CurFrame, ![t] = IdleFrame]
        /\ pc' = frames[t].pc
        /\ op' = frames[t].op
        /\ raw' = frames[t].raw
        /\ UNCHANGED subject
        /\ probes' = frames[t].probes
        /\ consulted' = frames[t].consulted
        /\ invoked' = frames[t].invoked
        /\ node_ok' = frames[t].node_ok
        /\ exc' = frames[t].exc
        /\ outcome' = frames[t].outcome
        /\ driver' = frames[t].driver
        /\ retry_count' = frames[t].retry_count
        /\ is_safe' = frames[t].is_safe
        /\ events' = frames[t].events
        /\ node_exc' = frames[t].node_exc
        /\ reply' = frames[t].reply
        /\ UNCHANGED self

\* the scheduler suspends the running thread and resumes another one: every
\* name the two operations assign is a local of the call (ok, report, url,
\* phone_number, node_i_ok, and the locals of is_safe), so it is saved with
\* the thread and restored with it; the instance is not touched
Switch ==
    \E t \in Threads \ {cur} :
        /\ cur' = t
        /\ frames' = [frames EXCEPT ![cur] = CurFrame, ![t] = IdleFrame]
        /\ pc' = frames[t].pc
        /\ op' = frames[t].op
        /\ raw' = frames[t].raw
        /\ subject' = frames[t].subject
        /\ probes' = frames[t].probes
        /\ consulted' = frames[t].consulted
        /\ invoked' = frames[t].invoked
        /\ node_ok' = frames[t].node_ok
        /\ exc' = frames[t].exc
        /\ outcome' = frames[t].outcome
        /\ driver' = frames[t].driver
        /\ retry_count' = frames[t].retry_count
        /\ is_safe' = frames[t].is_safe
        /\ events' = frames[t].events
        /\ node_exc' = frames[t].node_exc
        /\ reply' = frames[t].reply
        /\ UNCHANGED self

ConcNext ==
    \/ ConcCallPhone
    \/ ConcCallUrl
    \/ Switch
    \/ PhoneNormalize
    \/ PhoneOverride
    \/ PhoneQueryNode
    \/ TheCallOpen
    \/ TheCallLoad
    \/ TheCallSubmit
    \/ TheCallWaitMarker
    \/ TheCallQuit
    \/ MissedCallOpen
    \/ MissedCallLoad
    \/ MissedCallSubmit
    \/ MissedCallAttempt
    \/ MissedCallQuit
    \/ PhoneCombine
    \/ UrlValidate
    \/ ProbeHttps
    \/ ProbeHttp
    \/ ExpandShortUrl
    \/ UrlOverride
    \/ ConcUrlQueryNode
    \/ ConcWhoXYBalance
    \/ ConcWhoXYQuery
    \/ UrlCombine

\* two requests, each served by its own thread, in any interleaving
ConcSpec == Init /\ [][ConcNext]_vars

TypeOK ==
    /\ pc \in {"idle", "p_normalize", "p_override", "p_node", "p_combine", "u_validate",
               "u_https", "u_http", "u_expand", "u_override", "u_node", "u_combine", "done",
               "tc_open", "tc_load", "tc_submit", "tc_wait", "tc_quit",
               "mc_open", "mc_load", "mc_submit", "mc_attempt", "mc_quit",
               "wx_balance", "wx_query"}
    /\ reply.node \in {"none", "Phishtank", "WhoXY balance", "WhoXY", "KISA"}
    /\ driver \in {"none", "open", "quit"}
    /\ retry_count \in 0.._MAX_RETRIES
    /\ is_safe \in BOOLEAN
    /\ op \in {"none", "phone", "url"}
    /\ outcome.kind \in {"none", "result", "InvalidArgument", "OperationFailed"}
    /\ Len(node_ok) <= 3
    /\ Len(invoked) <= 3
    /\ Len(probes) <= 3

(***************************************************************************)
(* Vocabulary of the properties                                            *)
(***************************************************************************)
Done == pc = "done"

\* all three nodes of the running call returned a verdict and the call ended
ConsensusCompleted == Done /\ Len(node_ok) = 3

\* the subject is in neither override list of its own type
InNeitherList ==
    \/ op = "phone" /\ subject \notin _phone_whitelist \cup _phone_blacklist
    \/ op = "url" /\ subject \notin _url_whitelist \cup _url_blacklist

IsDecimalDigit(c) == c \in DecimalDigits

\* the raw phone input is made of decimal digits, hyphens and spaces only and
\* its digits are the number d
RawPhoneDenotes(r, d) ==
    /\ \A i \in 1..Len(r) : r[i] \in DecimalDigits \cup {"-", " "}
    /\ SelectSeq(r, IsDecimalDigit) = d

\* preprocessing of the URL call ended without raising: `subject' is the
\* resolved URL
UrlResolved ==
    /\ op = "url"
    /\ \/ pc \in {"u_override", "u_node", "u_combine"}
       \/ Done /\ exc.stage \notin {"validate", "resolve", "expand"}

ProbeStages(o) == {probes[i].stage : i \in {j \in 1..Len(probes) : probes[j].outcome = o}}

(***************************************************************************)
(* C1  Strict AND.  When the subject is in neither override list and all   *)
(* three nodes returned a verdict, the call returns a result whose safe    *)
(* flag is true exactly when all three verdicts are true.                  *)
(***************************************************************************)
C1_StrictAnd ==
    (ConsensusCompleted /\ InNeitherList) =>
        /\ outcome.kind = "result"
        /\ outcome.safe <=> (\A i \in 1..3 : node_ok[i])

C1_Witness ==
    /\ ConsensusCompleted /\ InNeitherList
    /\ op = "phone"
    /\ node_ok = <<TRUE, FALSE, TRUE>>
    /\ outcome.kind = "result" /\ ~outcome.safe

(***************************************************************************)
(* C2  A node that raises aborts the evaluation: the call ends with        *)
(* OperationFailed, carries no report, and is no (safe, report) result,    *)
(* whichever node raised and whatever the earlier nodes answered.          *)
(***************************************************************************)
C2_NodeErrorAborts ==
    (Done /\ exc.type = "NodeError") =>
        /\ outcome.kind = "OperationFailed"
        /\ outcome.report = <<>>
        /\ ~outcome.safe

C2_Witness ==
    /\ Done /\ exc = Raised("NodeError", "Node_3")
    /\ node_ok = <<TRUE, TRUE>>
    /\ outcome.kind = "OperationFailed"

(***************************************************************************)
(* C3  A raw phone input whose normalized form is whitelisted returns      *)
(* safe=true with the whitelist report and no node is invoked.             *)
(***************************************************************************)
C3_PhoneWhitelist ==
    (Done /\ op = "phone" /\ \E d \in _phone_whitelist : RawPhoneDenotes(raw, d)) =>
        /\ outcome = Result(TRUE, <<"Valid phone number which listed on whitelist">>)
        /\ invoked = <<>>

C3_Witness ==
    /\ Done /\ op = "phone"
    /\ raw = <<"0", "1", "0", "-", "9", "2", "5", "6", "-", "3", "6", "8", "8">>
    /\ outcome.kind = "result" /\ outcome.safe
    /\ invoked = <<>>

(***************************************************************************)
(* C4  A raw phone input whose normalized form is blacklisted returns      *)
(* safe=false with the blacklist report and no node is invoked.            *)
(***************************************************************************)
C4_PhoneBlacklist ==
    (Done /\ op = "phone" /\ \E d \in _phone_blacklist : RawPhoneDenotes(raw, d)) =>
        /\ outcome = Result(FALSE, <<"Invalid phone number which listed on blacklist">>)
        /\ invoked = <<>>

C4_Witness ==
    /\ Done /\ op = "phone"
    /\ raw = <<"0", "1", "0", " ", "8", "2", "5", "3", " ", "9", "4", "5", "1", " ">>
    /\ outcome.kind = "result" /\ ~outcome.safe
    /\ invoked = <<>>

(***************************************************************************)
(* C5  A URL whose resolved form is in the URL blacklist returns           *)
(* safe=false with the blacklist report and no URL node is invoked.        *)
(***************************************************************************)
C5_UrlBlacklist ==
    (UrlResolved /\ subject \in _url_blacklist) =>
        /\ invoked = <<>>
        /\ Done => outcome = Result(FALSE, <<"Invalid url which listed on blacklist">>)

(***************************************************************************)
(* C6  A URL whose resolved form is in the URL whitelist returns safe=true *)
(* with the whitelist report and no URL node is invoked.                   *)
(***************************************************************************)
C6_UrlWhitelist ==
    (UrlResolved /\ subject \in _url_whitelist) =>
        /\ invoked = <<>>
        /\ Done => outcome = Result(TRUE, <<"Valid url which listed on whitelist">>)

(***************************************************************************)
(* C7  A finished call has exactly one of the outcomes result,             *)
(* InvalidArgument, OperationFailed.  An exception raised by               *)
(* normalization, validation or resolution, other than the three           *)
(* inaccessible-target errors, ends the call with InvalidArgument; an      *)
(* exception raised by a node ends it with OperationFailed; a call in      *)
(* which nothing was raised returns a result.                              *)
(***************************************************************************)
C7_FailureKinds ==
    Done =>
        /\ outcome.kind \in {"result", "InvalidArgument", "OperationFailed"}
        /\ (exc.stage \in {"normalize", "validate", "resolve", "expand"}
               /\ exc.type \notin InaccessibleErrors) => outcome.kind = "InvalidArgument"
        /\ exc.stage \in {"Node_1", "Node_2", "Node_3"} => outcome.kind = "OperationFailed"
        /\ exc = NoExc => outcome.kind = "result"
        /\ outcome.kind = "InvalidArgument" =>
               exc.stage \in {"normalize", "validate", "resolve", "expand"}
        /\ outcome.kind = "OperationFailed" => exc.stage \in {"Node_1", "Node_2", "Node_3"}

C7_Witness ==
    /\ Done /\ op = "url"
    /\ exc = Raised("RequestException", "expand")
    /\ outcome.kind = "InvalidArgument"

(***************************************************************************)
(* C8  For a syntactically valid URL, when the https probe and the http    *)
(* probe both got no response, or when a probe timed out, the call returns *)
(* safe=true with report "URL is not accessible"; no override list was     *)
(* consulted and no node was invoked.                                      *)
(***************************************************************************)
C8_InaccessibleIsSafe ==
    (/\ Done /\ op = "url" /\ _is_url(Strip(raw))
     /\ \/ {"https", "http"} \subseteq ProbeStages("reqerr")
        \/ ProbeStages("timeout") # {}) =>
        /\ outcome = Result(TRUE, <<"URL is not accessible">>)
        /\ consulted = <<>>
        /\ invoked = <<>>

C8_Witness ==
    /\ Done /\ op = "url"
    /\ Len(probes) = 2
    /\ probes[1].outcome = "reqerr" /\ probes[2].outcome = "reqerr"
    /\ outcome.kind = "result" /\ outcome.safe

(***************************************************************************)
(* C9  as stated: whenever the https probe fails, with a network failure   *)
(* or with a timeout, the http variant is probed next.                     *)
(***************************************************************************)
C9_HttpAfterAnyHttpsFailure ==
    (Len(probes) >= 1 /\ probes[1].outcome \in {"reqerr", "timeout"}) =>
        \/ pc = "u_http"
        \/ Len(probes) >= 2 /\ probes[2].stage = "http"

\* the http variant of the stripped input, written out
HttpVariant(r) ==
    IF Strip(r) # <<>> /\ Head(Strip(r)) = "http://" THEN Strip(r) ELSE <<"http://">> \o Strip(r)

(***************************************************************************)
(* C9  amended: when the https probe fails with a network failure that is  *)
(* not a timeout, the http variant is probed next; when it times out, the  *)
(* call ends as inaccessible and http is never probed.  When the http      *)
(* probe succeeds the subject becomes the http variant: it is the URL that *)
(* redirect expansion probes and, unless expansion replaces it by a        *)
(* redirect target, the URL that every node receives.  For a bare domain   *)
(* the variant is "http://<domain>".                                       *)
(***************************************************************************)
C9_HttpAfterHttpsNetworkFailure ==
    /\ (Len(probes) >= 1 /\ probes[1].outcome = "reqerr") =>
          \/ pc = "u_http"
          \/ /\ Len(probes) >= 2
             /\ probes[2].stage = "http"
             /\ probes[2].url = HttpVariant(raw)
             /\ Len(Strip(raw)) = 1 => probes[2].url = <<"http://", Strip(raw)[1]>>
    /\ (Len(probes) >= 1 /\ probes[1].outcome = "timeout") =>
          /\ Done /\ Len(probes) = 1
          /\ outcome = Result(TRUE, <<"URL is not accessible">>)
    /\ (Len(probes) >= 2 /\ probes[2].outcome = "response") =>
          /\ pc = "u_expand" => subject = probes[2].url
          /\ Len(probes) >= 3 =>
                /\ probes[3].url = probes[2].url
                /\ (UrlResolved /\ probes[3].outcome \notin {"301", "302"}) =>
                      /\ subject = probes[2].url
                      /\ \A k \in 1..Len(invoked) : invoked[k].subject = probes[2].url

C9_Witness ==
    /\ Done /\ op = "url"
    /\ raw = <<"r3born.cc">>
    /\ Len(probes) = 3
    /\ probes[1].outcome = "reqerr" /\ probes[2].outcome = "response"
    /\ probes[3].outcome = "200"
    /\ Len(invoked) = 3
    /\ invoked[1].subject = <<"http://", "r3born.cc">>

(***************************************************************************)
(* C10  When consensus completes the report has exactly three lines, for   *)
(* Node_1, Node_2, Node_3 in this order; each line names its node and ends *)
(* in "ok" when that node's verdict was true and in "suspicious" when it   *)
(* was false, for a safe and for an unsafe overall result alike.           *)
(***************************************************************************)
C10_LinePrefix ==
    [phone |-> <<"- Node_1(OneOneFourPhoneSafeChecker): ",
                 "- Node_2(TheCallPhoneSafeChecker): ",
                 "- Node_3(MissedCallPhoneSafeChecker): ">>,
     url   |-> <<"- Node_1(PhishtankURLSafeChecker): ",
                 "- Node_2(WhoXYURLSafeChecker): ",
                 "- Node_3(KISAURLSafeChecker): ">>]

C10_ReportLines ==
    ConsensusCompleted =>
        /\ outcome.kind = "result"
        /\ Len(outcome.report) = 3
        /\ \A i \in 1..3 :
              outcome.report[i] =
                  C10_LinePrefix[op][i] \o (IF node_ok[i] THEN "ok" ELSE "suspicious")

C10_Witness ==
    /\ ConsensusCompleted /\ op = "url"
    /\ node_ok = <<FALSE, TRUE, FALSE>>
    /\ outcome.report = <<"- Node_1(PhishtankURLSafeChecker): suspicious",
                          "- Node_2(WhoXYURLSafeChecker): ok",
                          "- Node_3(KISAURLSafeChecker): suspicious">>

(***************************************************************************)
(* Vocabulary of the properties of the phone nodes                         *)
(***************************************************************************)
EventCount(e) == Cardinality({i \in 1..Len(events) : events[i] = e})

AttemptsBefore(i) == Cardinality({j \in 1..i : events[j] = "attempt"})

IsCanonicalPhone(s) == s # <<>> /\ \A i \in 1..Len(s) : s[i] \in DecimalDigits

(***************************************************************************)
(* C11  When level extraction failed on every one of the 3 allowed         *)
(* attempts of MissedCallPhoneSafeChecker.is_safe, the node gives no       *)
(* verdict: ExtractLevelFailureError leaves is_safe and check_phone_safety *)
(* ends with OperationFailed.                                              *)
(***************************************************************************)
C11_ExhaustionRaises ==
    (op = "phone" /\ EventCount("extract_failed") = 3 /\ pc \in {"p_combine", "done"}) =>
        /\ Len(node_ok) < 3
        /\ pc = "done"
        /\ node_exc = "ExtractLevelFailureError"
        /\ outcome.kind = "OperationFailed"

(***************************************************************************)
(* C12  One is_safe call of MissedCallPhoneSafeChecker makes at most 3     *)
(* extraction attempts; a failed attempt is followed by the 3-second sleep *)
(* and, while fewer than 3 attempts were made, by the next attempt; a      *)
(* successful attempt is the last one and its level decides the verdict    *)
(* that is returned; the loop always ends.                                 *)
(***************************************************************************)
C12_RetryInvariant ==
    /\ EventCount("attempt") <= 3
    /\ \A i \in 1..Len(events) :
          /\ events[i] = "extract_failed" => (i < Len(events) /\ events[i + 1] = "sleep")
          /\ events[i] = "sleep" =>
                IF AttemptsBefore(i) < 3
                THEN IF i = Len(events) THEN pc = "mc_attempt" ELSE events[i + 1] = "attempt"
                ELSE IF i = Len(events) THEN pc = "mc_quit" ELSE events[i + 1] = "quit"
          /\ events[i] \in {"extracted:0", "extracted:3"} =>
                /\ \A j \in (i + 1)..Len(events) : events[j] # "attempt"
                /\ IF i = Len(events) THEN pc = "mc_quit" ELSE events[i + 1] = "quit"
                /\ Len(node_ok) = 3 => (node_ok[3] <=> events[i] = "extracted:0")

C12_BoundedRetry ==
    /\ []C12_RetryInvariant
    /\ (pc = "mc_attempt") ~> (pc \in {"p_combine", "done"})

C12_Witness ==
    /\ pc = "p_combine"
    /\ EventCount("attempt") = 3 /\ EventCount("sleep") = 2
    /\ EventCount("extracted:0") = 1
    /\ node_ok[3]

(***************************************************************************)
(* C13  When an evaluation call has ended, no browser session opened       *)
(* during it is still open, whether the node returned a verdict or raised. *)
(***************************************************************************)
C13_SessionReleased ==
    (pc \in {"p_node", "p_combine", "done"}) => driver # "open"

(***************************************************************************)
(* C14  Phone normalization rejects with InvalidArgument every input that, *)
(* once trimmed, contains a character other than a decimal digit, a hyphen *)
(* or a space, and accepts every other input, mapping it to its digits.    *)
(***************************************************************************)
C14_NormalizeAcceptance ==
    (op = "phone" /\ pc # "p_normalize") =>
        IF \E i \in 1..Len(Strip(raw)) : Strip(raw)[i] \notin DecimalDigits \cup {"-", " "}
        THEN pc = "done" /\ outcome = Failure("InvalidArgument")
        ELSE /\ exc.stage # "normalize"
             /\ outcome.kind # "InvalidArgument"
             /\ subject = SelectSeq(raw, IsDecimalDigit)

(***************************************************************************)
(* C15  Phone normalization is idempotent: the normalized form of an       *)
(* accepted input is itself accepted and normalizes to itself.             *)
(***************************************************************************)
C15_NormalizeIdempotent ==
    (op = "phone" /\ pc = "p_override") =>
        /\ _normalize_phone_number(subject).raised = "none"
        /\ _normalize_phone_number(subject).value = subject

C15_Witness ==
    /\ op = "phone" /\ pc = "p_override"
    /\ raw = <<"-", "1", "-">>
    /\ subject = <<"1">>

(***************************************************************************)
(* C16  Every phone subject that reaches the override check or a phone     *)
(* node is canonical: non-empty and made of decimal digits only.           *)
(***************************************************************************)
C16_CanonicalSubject ==
    op = "phone" =>
        /\ pc = "p_override" => IsCanonicalPhone(subject)
        /\ \A k \in 1..Len(invoked) : IsCanonicalPhone(invoked[k].subject)

(***************************************************************************)
(* C17  check_url_safety runs validate, resolve scheme, expand redirects,  *)
(* override check, nodes in this order: the override check and the nodes   *)
(* run only after a scheme probe and then the expansion probe succeeded,   *)
(* and on the resolved URL; a call that ends as inaccessible consulted no  *)
(* override list and invoked no node, even when the URL it had resolved so *)
(* far is blacklisted.                                                     *)
(***************************************************************************)
C17_StageOrder ==
    op = "url" =>
        /\ (consulted # <<>> \/ invoked # <<>> \/ pc \in {"u_override", "u_node", "u_combine"}) =>
              /\ _is_url(Strip(raw))
              /\ Len(probes) \in {2, 3}
              /\ LET n == Len(probes)
                 IN  /\ probes[1].stage = "https"
                     /\ n = 3 => (probes[1].outcome = "reqerr" /\ probes[2].stage = "http")
                     /\ probes[n - 1].outcome = "response"
                     /\ probes[n].stage = "expand"
                     /\ probes[n].url = probes[n - 1].url
                     /\ probes[n].outcome \in {"200", "301", "302"}
                     /\ IF probes[n].outcome = "200"
                        THEN subject = probes[n].url
                        ELSE subject \in RedirectTargets
              /\ \A k \in 1..Len(invoked) : invoked[k].subject = subject
        /\ invoked # <<>> => Len(consulted) = 2
        /\ (pc = "done" /\ exc.type \in InaccessibleErrors) =>
              /\ outcome = Result(TRUE, <<"URL is not accessible">>)
              /\ consulted = <<>>
              /\ invoked = <<>>

C17_Witness ==
    /\ pc = "done" /\ op = "url"
    /\ subject \in _url_blacklist
    /\ exc = Raised("URLNotFoundError", "expand")
    /\ outcome = Result(TRUE, <<"URL is not accessible">>)
    /\ consulted = <<>> /\ invoked = <<>>

(***************************************************************************)
(* C19  The nodes are queried one after another in the order Node_1,       *)
(* Node_2, Node_3, each at most once; a suspicious verdict does not skip   *)
(* the later nodes; after a node raised no further node is queried.        *)
(***************************************************************************)
C19_NodeOrder ==
    /\ Len(invoked) <= 3
    /\ \A k \in 1..Len(invoked) : invoked[k].node = <<"Node_1", "Node_2", "Node_3">>[k]
    /\ Len(node_ok) <= Len(invoked) /\ Len(invoked) <= Len(node_ok) + 1
    /\ (pc = "done" /\ outcome.kind = "result" /\ invoked # <<>>) =>
          Len(invoked) = 3 /\ Len(node_ok) = 3
    /\ (pc = "done" /\ exc.type = "NodeError") =>
          /\ Len(invoked) = Len(node_ok) + 1
          /\ exc.stage = invoked[Len(invoked)].node

C19_Witness ==
    /\ pc = "done" /\ op = "phone"
    /\ node_ok = <<FALSE, TRUE, TRUE>>
    /\ Len(invoked) = 3
    /\ outcome.kind = "result" /\ ~outcome.safe

(***************************************************************************)
(* C20  In the retry loop of MissedCallPhoneSafeChecker.is_safe an error   *)
(* other than the extraction failure leaves is_safe when it first occurs:  *)
(* nothing follows it, neither a sleep nor another attempt, and the call   *)
(* ends with OperationFailed.                                              *)
(***************************************************************************)
C20_OtherErrorsNotRetried ==
    \A i \in 1..Len(events) :
        events[i] \in {"wait_result:timeout", "wait_result:raise"} =>
            /\ i = Len(events)
            /\ pc = "done"
            /\ node_exc = (IF events[i] = "wait_result:timeout"
                           THEN "TimeoutException" ELSE "WebDriverException")
            /\ outcome.kind = "OperationFailed"

C20_Witness ==
    /\ pc = "done"
    /\ EventCount("sleep") = 1
    /\ events[Len(events)] = "wait_result:timeout"
    /\ node_exc = "TimeoutException"

(***************************************************************************)
(* The outcome of a call that runs alone, as a function of its input and   *)
(* of the responses it received (its probe log and its node event log)     *)
(***************************************************************************)
VerdictOfEvent ==
    ("true" :> TRUE) @@ ("false" :> FALSE) @@
    ("wait_marker:found" :> FALSE) @@ ("wait_marker:timeout" :> TRUE) @@
    ("extracted:0" :> TRUE) @@ ("extracted:3" :> FALSE)

RaiseEvents ==
    {"raise", "wait_input:timeout", "wait_input:raise", "submit:raise", "wait_marker:raise",
     "wait_result:timeout", "wait_result:raise"}

IsVerdictEvent(e) == e \in DOMAIN VerdictOfEvent

\* the verdicts the nodes returned, in order; three sleeps are a retry loop
\* that ran out, which returns False.  Logs that no complete call leaves
\* behind have no outcome (NoOutcome below).
AloneVerdicts(ev) ==
    LET d == SelectSeq(ev, IsVerdictEvent)
        v == [i \in 1..Len(d) |-> VerdictOfEvent[d[i]]]
    IN  IF Cardinality({i \in 1..Len(ev) : ev[i] = "sleep"}) = 3 THEN Append(v, FALSE) ELSE v

AloneConsensus(registry, ev) ==
    IF \E i \in 1..Len(ev) : ev[i] \in RaiseEvents
    THEN Failure("OperationFailed")
    ELSE LET v == AloneVerdicts(ev)
         IN  IF Len(v) # 3 THEN NoOutcome
             ELSE Result(v[1] /\ v[2] /\ v[3], JoinedReport(registry, v))

AlonePhone(f) ==
    LET n == _normalize_phone_number(f.raw)
    IN  IF n.raised # "none" THEN Failure("InvalidArgument")
        ELSE IF n.value \in _phone_whitelist
        THEN Result(TRUE, <<"Valid phone number which listed on whitelist">>)
        ELSE IF n.value \in _phone_blacklist
        THEN Result(FALSE, <<"Invalid phone number which listed on blacklist">>)
        ELSE AloneConsensus(_phone_safe_checker, f.events)

AloneUrl(f) ==
    LET Inaccessible == Result(TRUE, <<"URL is not accessible">>)
        o(i) == IF i <= Len(f.probes) THEN f.probes[i].outcome ELSE "none"
        Expand(j) ==
            IF o(j) = "none" THEN NoOutcome
            ELSE IF o(j) \in {"timeout", "404"} THEN Inaccessible
            ELSE IF o(j) \in {"reqerr", "other"} THEN Failure("InvalidArgument")
            ELSE AloneConsensus(_url_safe_checker, f.events)
    IN  IF ~_is_url(Strip(f.raw)) THEN Failure("InvalidArgument")
        ELSE IF "none" \in {o(1), IF o(1) = "reqerr" THEN o(2) ELSE o(1)} THEN NoOutcome
        ELSE IF o(1) = "timeout" THEN Inaccessible
        ELSE IF o(1) = "other" THEN Failure("InvalidArgument")
        ELSE IF o(1) = "response" THEN Expand(2)
        ELSE IF o(2) \in {"timeout", "reqerr"} THEN Inaccessible
        ELSE IF o(2) = "other" THEN Failure("InvalidArgument")
        ELSE Expand(3)

AloneOutcome(f) == IF f.op = "phone" THEN AlonePhone(f) ELSE AloneUrl(f)

\* the frames of all threads, the running one included
AllFrames == {CurFrame} \cup {frames[t] : t \in Threads \ {cur}}

(***************************************************************************)
(* C18  When several evaluation calls run concurrently on the same         *)
(* SafeChecker, in any interleaving, every call that has ended has the     *)
(* outcome it has when it runs alone with the same probe and node          *)
(* responses, and the override lists and node registries of the instance   *)
(* are as __init__ set them.                                               *)
(***************************************************************************)
C18_ConcurrentCallsIndependent ==
    /\ \A f \in AllFrames : f.pc = "done" => f.outcome = AloneOutcome(f)
    /\ self = SafeCheckerInit

C18_Witness ==
    /\ pc = "done" /\ op = "phone"
    /\ outcome = Result(TRUE, <<"Valid phone number which listed on whitelist">>)
    /\ \E t \in Threads \ {cur} :
          /\ frames[t].pc = "done"
          /\ frames[t].op = "phone"
          /\ frames[t].raw = <<"1", "-", "0">>
          /\ frames[t].outcome.kind = "result"
          /\ Len(frames[t].invoked) = 3
    /\ invoked = <<>>

(***************************************************************************)
(* Vocabulary of the properties of the URL pipeline                        *)
(***************************************************************************)
\* the expansion probe was made and this is how it ended
ExpandEnded(o) ==
    /\ op = "url"
    /\ probes # <<>>
    /\ probes[Len(probes)].stage = "expand"
    /\ probes[Len(probes)].outcome = o

(***************************************************************************)
(* C21  The expansion probe is made on the scheme-qualified URL.  When it  *)
(* answers 404 or times out, check_url_safety ends with safe=true and the  *)
(* report "URL is not accessible", without a failure and without invoking  *)
(* a node; when it raises any other exception, check_url_safety ends with  *)
(* InvalidArgument.                                                        *)
(***************************************************************************)
C21_ExpansionFailures ==
    /\ \A o \in {"404", "timeout"} :
          ExpandEnded(o) =>
              /\ pc = "done"
              /\ outcome = Result(TRUE, <<"URL is not accessible">>)
              /\ invoked = <<>>
    /\ \A o \in {"reqerr", "other"} :
          ExpandEnded(o) =>
              /\ pc = "done"
              /\ outcome = Failure("InvalidArgument")
              /\ invoked = <<>>
    /\ \A o \in ExpandProbeOutcomes :
          ExpandEnded(o) =>
              /\ Len(probes) >= 2
              /\ probes[Len(probes) - 1].outcome = "response"
              /\ probes[Len(probes)].url = probes[Len(probes) - 1].url
              /\ Head(probes[Len(probes)].url) \in SchemeTokens

C21_Witness ==
    /\ pc = "done"
    /\ ExpandEnded("reqerr")
    /\ exc = Raised("RequestException", "expand")
    /\ outcome = Failure("InvalidArgument")

(***************************************************************************)
(* Vocabulary of the properties of the URL nodes                           *)
(***************************************************************************)
\* URL node i has ended and `reply' is the answer it decided on
UrlNodeEnded(i, name) ==
    /\ op = "url"
    /\ reply.node = name
    /\ Len(invoked) = i
    /\ pc \in {"u_node", "u_combine", "done"}

\* URL node i returned the verdict v
UrlNodeReturned(i, v) ==
    /\ Len(node_ok) = i
    /\ node_ok[i] = v
    /\ node_exc = "none"

\* the exception `type' left URL node i and check_url_safety ended with
\* OperationFailed
UrlNodeRaised(i, type) ==
    /\ Len(node_ok) = i - 1
    /\ node_exc = type
    /\ pc = "done"
    /\ exc = Raised("NodeError", NodeName(i))
    /\ outcome = Failure("OperationFailed")

\* the balance request was answered normally with this credit
BalanceAnswered(credit) ==
    /\ reply.node = "WhoXY balance"
    /\ reply.get = "ok" /\ reply.http_ok /\ reply.status = 1
    /\ reply.credit = credit

(***************************************************************************)
(* C22  WhoXYURLSafeChecker.is_safe checks the account credit before it    *)
(* queries the registration data; with a credit of zero the node returns   *)
(* no verdict and sends no registration query: it raises                   *)
(* WhoXYAPIBalanceDryoutError and check_url_safety ends with               *)
(* OperationFailed.                                                        *)
(***************************************************************************)
C22_CreditGate ==
    op = "url" =>
        /\ \A i \in 1..Len(events) :
              events[i] = "whois" => \E j \in 1..(i - 1) : events[j] = "balance"
        /\ pc = "wx_query" => events[Len(events)] = "balance"
        /\ (BalanceAnswered(0) /\ pc # "wx_balance") =>
              /\ UrlNodeRaised(2, "WhoXYAPIBalanceDryoutError")
              /\ EventCount("whois") = 0
              /\ Len(invoked) = 2

C22_Witness ==
    /\ op = "url" /\ pc = "done"
    /\ BalanceAnswered(0)
    /\ node_exc = "WhoXYAPIBalanceDryoutError"
    /\ outcome = Failure("OperationFailed")

(***************************************************************************)
(* C23  A not-applicable answer of a registration provider is the verdict  *)
(* safe: WhoXY returns True when its non-success answer gives the reason   *)
(* "unsupported domain extension" (in any letter case), KISA returns True  *)
(* on result code "031".  Every other non-success answer of either         *)
(* provider, an HTTP error included, is an internal error of the node and  *)
(* never a verdict.                                                        *)
(***************************************************************************)
C23_NotApplicableIsSafe ==
    /\ (UrlNodeEnded(2, "WhoXY") /\ reply.get = "ok") =>
          IF ~reply.http_ok
          THEN UrlNodeRaised(2, "RequestFailureError")
          ELSE reply.status # 1 =>
                  IF Head(reply.status_reason) \in
                        {"Unsupported Domain Extension", "unsupported domain extension"}
                  THEN UrlNodeReturned(2, TRUE)
                  ELSE UrlNodeRaised(2, "RequestFailureError")
    /\ (UrlNodeEnded(3, "KISA") /\ reply.get = "ok") =>
          IF ~reply.http_ok
          THEN UrlNodeRaised(3, "RequestFailureError")
          ELSE reply.result_code # "10000" =>
                  IF reply.result_code = "031"
                  THEN UrlNodeReturned(3, TRUE)
                  ELSE UrlNodeRaised(3, "RequestFailureError")

C23_Witness ==
    /\ UrlNodeEnded(2, "WhoXY")
    /\ reply.status = 0
    /\ reply.status_reason = <<"Unsupported Domain Extension", ": xyz">>
    /\ UrlNodeReturned(2, TRUE)
    /\ pc = "u_node"

(***************************************************************************)
(* C24  WhoXY and KISA apply the same three-condition heuristic: on the    *)
(* same registration facts (age in days, status list, registrant name)     *)
(* each node returns the same verdict, suspicious iff the domain was       *)
(* registered within the last 30 days, or a status is clienthold or        *)
(* inactive, or the registrant begins with "redacted", and safe otherwise, *)
(* also when the status list or the registrant entry is empty.             *)
(***************************************************************************)
\* the three conditions, on the facts
Flagged(f) ==
    \/ f.age <= 30
    \/ \E k \in 1..Len(f.statuses) : Lower(f.statuses[k]) \in {"clienthold", "inactive"}
    \/ (f.registrant # <<>> /\ Lower(Head(f.registrant)) = "redacted")

\* the provider answered with a registration record that gives the age
RecordAnswered == reply.get = "ok" /\ reply.http_ok /\ reply.whois_data.dated

C24_SameHeuristic ==
    /\ (UrlNodeEnded(2, "WhoXY") /\ RecordAnswered /\ reply.status = 1) =>
          UrlNodeReturned(2, ~Flagged(reply.whois_data))
    /\ (UrlNodeEnded(3, "KISA") /\ RecordAnswered /\ reply.result_code = "10000") =>
          UrlNodeReturned(3, ~Flagged(reply.whois_data))

(***************************************************************************)
(* C25  PhishtankURLSafeChecker.is_safe reads the quota headers before it  *)
(* parses the body and raises PhishtankRatelimitExceedError exactly when   *)
(* the request count exceeds the limit, whatever the body says; when the   *)
(* quota is not exceeded and the request succeeded, the verdict is safe if *)
(* the URL is absent from the database and otherwise safe iff the database *)
(* does not flag it as validated phishing.                                 *)
(***************************************************************************)
C25_QuotaThenBody ==
    (UrlNodeEnded(1, "Phishtank") /\ reply.post = "ok" /\ reply.interval) =>
        IF reply.cnt > reply.limit
        THEN UrlNodeRaised(1, "PhishtankRatelimitExceedError")
        ELSE /\ node_exc # "PhishtankRatelimitExceedError"
             /\ (reply.body.json /\ reply.body.status = "success") =>
                   UrlNodeReturned(1, IF reply.body.in_database THEN ~reply.body.valid ELSE TRUE)

(***************************************************************************)
(* C26  In TheCallPhoneSafeChecker.is_safe a timeout of the wait for the   *)
(* report marker is the verdict safe and the presence of the marker is the *)
(* verdict suspicious; a timeout of the wait for the number input field is *)
(* an internal error: TimeoutException leaves is_safe, the node gives no   *)
(* verdict and check_phone_safety ends with OperationFailed.               *)
(***************************************************************************)
\* Node_2 of the phone call is the node that is running or that ran last
TheCallCurrent == op = "phone" /\ Len(invoked) = 2

C26_MarkerTimeoutIsVerdict ==
    op = "phone" =>
        /\ Len(node_ok) >= 2 =>
              /\ node_ok[2] <=> EventCount("wait_marker:timeout") = 1
              /\ ~node_ok[2] <=> EventCount("wait_marker:found") = 1
        /\ (TheCallCurrent /\ EventCount("wait_marker:timeout") + EventCount("wait_marker:found") = 1) =>
              /\ node_exc = "none"
              /\ pc \in {"tc_quit", "p_node"}
              /\ pc = "tc_quit" => (is_safe <=> EventCount("wait_marker:timeout") = 1)
        /\ (TheCallCurrent /\ EventCount("wait_input:timeout") = 1) =>
              /\ events[Len(events)] = "wait_input:timeout"
              /\ Len(node_ok) = 1
              /\ node_exc = "TimeoutException"
              /\ pc = "done"
              /\ outcome = Failure("OperationFailed")

C26_Witness ==
    /\ op = "phone" /\ pc = "p_node"
    /\ Len(node_ok) = 2 /\ node_ok[2]
    /\ events[Len(events) - 1] = "wait_marker:timeout"
    /\ events[Len(events)] = "quit"

(***************************************************************************)
(* C27  MissedCallPhoneSafeChecker.is_safe is fail-closed: it returns True *)
(* only if an extraction attempt of the call succeeded and extracted the   *)
(* spam level 0; when every extraction attempt failed it does not return   *)
(* True.                                                                   *)
(***************************************************************************)
\* Node_3 of the phone call is about to return is_safe, or has returned it
MissedCallVerdict(v) ==
    /\ op = "phone"
    /\ \/ pc = "mc_quit" /\ is_safe = v
       \/ Len(node_ok) = 3 /\ node_ok[3] = v

C27_FailClosed ==
    /\ MissedCallVerdict(TRUE) =>
          /\ EventCount("extracted:0") = 1
          /\ EventCount("extracted:3") = 0
    /\ (op = "phone" /\ Len(invoked) = 3 /\ EventCount("attempt") > 0
        /\ EventCount("extract_failed") = EventCount("attempt")) =>
          ~MissedCallVerdict(TRUE)

C27_Witness ==
    /\ op = "phone" /\ pc = "p_combine"
    /\ EventCount("extract_failed") = 2
    /\ EventCount("extracted:0") = 1
    /\ node_ok[3]

(***************************************************************************)
(* C28  Every URL that scheme resolution probes or returns carries exactly *)
(* one scheme prefix, "http://" or "https://", directly followed by the    *)
(* host of the input, so the same holds for the URL that the expansion     *)
(* probes and, without a redirect, for the URL of the override check and   *)
(* the nodes; also for an input that already starts with a scheme, no      *)
(* doubly-prefixed URL is probed or adopted.                               *)
(***************************************************************************)
\* the input without its surrounding whitespace and without its scheme
InputHostPart ==
    LET url == Strip(raw)
    IN  IF url # <<>> /\ Head(url) \in SchemeTokens THEN Tail(url) ELSE url

\* one scheme prefix, then the host part of the input
SinglyPrefixed(url) ==
    /\ url # <<>>
    /\ Head(url) \in SchemeTokens
    /\ Tail(url) = InputHostPart
    /\ \A k \in 2..Len(url) : url[k] \notin SchemeTokens

C28_SingleSchemePrefix ==
    op = "url" =>
        /\ \A k \in 1..Len(probes) : SinglyPrefixed(probes[k].url)
        /\ (pc = "u_expand" \/ (UrlResolved /\ probes[Len(probes)].outcome = "200")) =>
              SinglyPrefixed(subject)

====
